---- MODULE Spec2Model ----
(***************************************************************************)
(* HTMLSplitter.split_message of src/src/html_fragmenter/msg_split.py: the *)
(* generator that cuts an HTML document into fragments of at most max_len  *)
(* characters.  Strings are sequences of one-character strings; the tree   *)
(* model of the HTML library (parse, serialise, copy) is written out so    *)
(* that lengths, round trips and copies are computed, not assumed.         *)
(***************************************************************************)
EXTENDS Integers, Sequences, FiniteSets, TLC

VARIABLES source, max_len, stack, yielded, echoed, status, error

vars == <<source, max_len, stack, yielded, echoed, status, error>>

(***************************************************************************)
(* Bounds of the model.                                                    *)
(***************************************************************************)
\* largest number of top-level nodes of a generated input document
MaxTop == 2
\* largest max_len the splitter is constructed with
MaxMaxLen == 24

(***************************************************************************)
(* Tree model: Text (NavigableString) and Element (Tag) nodes.             *)
(***************************************************************************)
NavigableString(s) ==
    [kind |-> "text", name |-> <<>>, attrs |-> <<>>, data |-> s, children |-> <<>>]

Tag(nm, at, ch) ==
    [kind |-> "tag", name |-> nm, attrs |-> at, data |-> <<>>, children |-> ch]

isTag(n) == n.kind = "tag"

isNavigableString(n) == n.kind = "text"

RECURSIVE Flatten(_)
Flatten(ss) == IF ss = <<>> THEN <<>> ELSE Head(ss) \o Flatten(Tail(ss))

Whitespace == {" "}

isspace(s) == \A k \in 1..Len(s) : s[k] \in Whitespace

\* strip as a bug would have it: nothing is removed
strip_nothing(s) == s

\* str.strip(): the string without its leading and trailing whitespace
strip(s) ==
    IF isspace(s) THEN <<>>
    ELSE LET lo == CHOOSE k \in 1..Len(s) :
                       s[k] \notin Whitespace /\ \A j \in 1..(k - 1) : s[j] \in Whitespace
             hi == CHOOSE k \in 1..Len(s) :
                       s[k] \notin Whitespace /\ \A j \in (k + 1)..Len(s) : s[j] \in Whitespace
         IN  SubSeq(s, lo, hi)

(***************************************************************************)
(* Serialisation.  A Tag is written with its tags, attributes and          *)
(* children; a text node inside a serialised tree is written with the      *)
(* characters & < > replaced by entities.                                  *)
(***************************************************************************)
EntityOf(c) ==
    CASE c = "&" -> <<"&", "a", "m", "p", ";">>
      [] c = "<" -> <<"&", "l", "t", ";">>
      [] c = ">" -> <<"&", "g", "t", ";">>
      [] OTHER   -> <<c>>

output_ready(s) == Flatten([k \in 1..Len(s) |-> EntityOf(s[k])])

AttrText(a) == <<" ">> \o a[1] \o <<"=", "\"">> \o a[2] \o <<"\"">>

RECURSIVE decode(_)
decode(n) ==
    IF isNavigableString(n) THEN output_ready(n.data)
    ELSE <<"<">> \o n.name
         \o Flatten([k \in 1..Len(n.attrs) |-> AttrText(n.attrs[k])])
         \o <<">">>
         \o Flatten([k \in 1..Len(n.children) |-> decode(n.children[k])])
         \o <<"<", "/">> \o n.name \o <<">">>

\* str(soup) of a BeautifulSoup object holding the nodes ns
decodeAll(ns) == Flatten([k \in 1..Len(ns) |-> decode(ns[k])])

\* str(element): a NavigableString is a str and gives its own characters,
\* a Tag gives its serialisation
str(n) == IF isNavigableString(n) THEN n.data ELSE decode(n)

(***************************************************************************)
(* Copies.  copy(tag) builds a new Tag with the same name, a new attribute *)
(* mapping in the same order and copies of the children.                   *)
(***************************************************************************)
\* copy as a bug would have it: the children are not copied
copy_shallow(n) ==
    IF isNavigableString(n) THEN NavigableString(n.data)
    ELSE Tag(n.name, [k \in 1..Len(n.attrs) |-> <<n.attrs[k][1], n.attrs[k][2]>>], <<>>)

\* copy as a bug would have it: the attributes are not copied
RECURSIVE copy_without_attrs(_)
copy_without_attrs(n) ==
    IF isNavigableString(n) THEN NavigableString(n.data)
    ELSE Tag(n.name, <<>>, [k \in 1..Len(n.children) |-> copy_without_attrs(n.children[k])])

RECURSIVE copy(_)
copy(n) ==
    IF isNavigableString(n) THEN NavigableString(n.data)
    ELSE Tag(n.name,
             [k \in 1..Len(n.attrs) |-> <<n.attrs[k][1], n.attrs[k][2]>>],
             [k \in 1..Len(n.children) |-> copy(n.children[k])])

(***************************************************************************)
(* Parsing (BeautifulSoup(text, 'html.parser')): a tokenizer over the      *)
(* characters and a stack of open tags.  Entities in text are replaced by  *)
(* their characters, a whitespace-only string is reduced to one space, an  *)
(* end tag closes the innermost open tag of that name, and the tags still  *)
(* open at the end of the input are closed there.                          *)
(***************************************************************************)
\* the first index j >= i with s[j] in stops, Len(s) + 1 when there is none
Find(s, i, stops) ==
    CHOOSE j \in i..(Len(s) + 1) :
        /\ (j = Len(s) + 1 \/ s[j] \in stops)
        /\ \A k \in i..(j - 1) : s[k] \notin stops

RECURSIVE unescape(_)
unescape(s) ==
    IF s = <<>> THEN <<>>
    ELSE IF Head(s) = "&"
         THEN LET j   == Find(s, 1, {";"})
                  ref == SubSeq(s, 2, j - 1)
                  ch  == CASE ref = <<"a", "m", "p">> -> <<"&">>
                           [] ref = <<"l", "t">>      -> <<"<">>
                           [] ref = <<"g", "t">>      -> <<">">>
                           [] OTHER                   -> <<>>
              IN  IF j <= Len(s) /\ ch # <<>>
                  THEN ch \o unescape(SubSeq(s, j + 1, Len(s)))
                  ELSE <<"&">> \o unescape(Tail(s))
         ELSE <<Head(s)>> \o unescape(Tail(s))

endData(s) == IF s # <<>> /\ isspace(s) THEN <<" ">> ELSE s

RECURSIVE parse_attrs(_, _)
parse_attrs(s, i) ==
    IF i > Len(s) THEN <<>>
    ELSE IF s[i] \in Whitespace THEN parse_attrs(s, i + 1)
    ELSE LET e   == Find(s, i, {"="} \cup Whitespace)
             key == SubSeq(s, i, e - 1)
         IN  IF e + 1 <= Len(s) /\ s[e] = "=" /\ s[e + 1] = "\""
             THEN LET q == Find(s, e + 2, {"\""})
                  IN  <<<<key, unescape(SubSeq(s, e + 2, q - 1))>>>> \o parse_attrs(s, q + 1)
             ELSE <<<<key, <<>>>>>> \o parse_attrs(s, e + 1)

\* the innermost open tag is closed: it becomes the last child of its parent
popTag(st) ==
    LET n == Len(st)
    IN  SubSeq(st, 1, n - 2) \o <<[st[n - 1] EXCEPT !.children = @ \o <<st[n]>>]>>

RECURSIVE popToTag(_, _)
popToTag(st, k) == IF Len(st) < k THEN st ELSE popToTag(popTag(st), k)

RECURSIVE feed(_, _, _)
feed(s, i, st) ==
    IF i > Len(s) THEN popToTag(st, 2)[1].children
    ELSE IF s[i] = "<" /\ Find(s, i, {">"}) <= Len(s)
    THEN LET j == Find(s, i, {">"})
         IN  IF s[i + 1] = "/"
             THEN LET nm   == SubSeq(s, i + 2, j - 1)
                      open == {k \in 2..Len(st) : st[k].name = nm}
                  IN  feed(s, j + 1,
                           IF open = {} THEN st
                           ELSE popToTag(st, CHOOSE k \in open : \A m \in open : m <= k))
             ELSE LET inner == SubSeq(s, i + 1, j - 1)
                      e     == Find(inner, 1, Whitespace)
                  IN  feed(s, j + 1,
                           Append(st, Tag(SubSeq(inner, 1, e - 1), parse_attrs(inner, e), <<>>)))
    ELSE LET j    == IF s[i] = "<" THEN Len(s) + 1 ELSE Find(s, i, {"<"})
             data == endData(unescape(SubSeq(s, i, j - 1)))
         IN  feed(s, j, [st EXCEPT ![Len(st)].children = @ \o <<NavigableString(data)>>])

\* BeautifulSoup(text, 'html.parser'): the top-level nodes of the parsed text
BeautifulSoup(text) == feed(text, 1, <<Tag(<<>>, <<>>, <<>>)>>)

(***************************************************************************)
(* Input documents.  Every node of the pool has its own characters, so a   *)
(* node of an input is identified by its serialisation.                    *)
(***************************************************************************)
NodePool ==
    { NavigableString(<<" ", " ">>),
      NavigableString(<<"1", "1">>),
      NavigableString(<<" ", "2">>),
      NavigableString(<<"3", "&">>),
      Tag(<<"p">>, <<>>, <<NavigableString(<<"4">>)>>),
      Tag(<<"a">>, << <<<<"h">>, <<"U">>>>, <<<<"c">>, <<"V">>>> >>,
          <<NavigableString(<<"5">>)>>),
      Tag(<<"e">>, <<>>, <<>>),
      Tag(<<"d">>, <<>>,
          << Tag(<<"b">>, << <<<<"h">>, <<"X">>>>, <<<<"c">>, <<"Y">>>> >>,
                 <<NavigableString(<<"6">>)>>),
             Tag(<<"i">>, <<>>, <<NavigableString(<<"7">>)>>) >>),
      Tag(<<"n">>, <<>>,
          << NavigableString(<<"8", "8">>),
             Tag(<<"s">>, <<>>, <<NavigableString(<<"9">>)>>) >>),
      Tag(<<"r">>, <<>>,
          << Tag(<<"c">>, <<>>, <<NavigableString(<<"x">>)>>),
             Tag(<<"f">>, <<>>, <<NavigableString(<<"y">>)>>),
             Tag(<<"k">>, <<>>,
                 << Tag(<<"g">>, <<>>, <<NavigableString(<<"z">>)>>),
                    Tag(<<"t">>, <<>>, <<NavigableString(<<"w">>)>>),
                    Tag(<<"j">>, << <<<<"o">>, <<"W">>>> >>,
                        <<NavigableString(<<" ", "v">>)>>) >>) >>) }

RECURSIVE SeqsUpTo(_, _)
SeqsUpTo(S, n) ==
    IF n = 0 THEN {<<>>}
    ELSE LET shorter == SeqsUpTo(S, n - 1)
         IN  shorter \cup {Append(d, x) : d \in {e \in shorter : Len(e) = n - 1}, x \in S}

\* the documents: at most MaxTop top-level nodes, no node used twice
Documents ==
    {d \in SeqsUpTo(NodePool, MaxTop) :
        \A i, j \in 1..Len(d) : i # j => d[i] # d[j]}

Sources == {decodeAll(d) : d \in Documents}

(***************************************************************************)
(* HTMLSplitter                                                            *)
(***************************************************************************)
_estimate_length(soup) == Len(decodeAll(soup))

RECURSIVE scan_children(_, _, _)
scan_children(cs, k, total) ==
    IF k > Len(cs) THEN 0
    ELSE IF isTag(cs[k])
         THEN IF total + Len(str(cs[k])) > max_len THEN k
              ELSE scan_children(cs, k + 1, total + Len(str(cs[k])))
         ELSE scan_children(cs, k + 1, total)

\* the index of the child before which to split, 0 for None
_find_split_point(element, current_length) ==
    IF ~isTag(element) THEN 0
    ELSE scan_children(element.children, 1, current_length)

_can_be_split(element) ==
    IF isNavigableString(element) THEN FALSE
    ELSE IF element.children = <<>> THEN FALSE
    ELSE \E k \in 1..Len(element.children) : isTag(element.children[k])

\* a new tag with the name and the attributes of tag, without its children
_copy_tag_with_attrs(tag) ==
    Tag(tag.name, [k \in 1..Len(tag.attrs) |-> <<tag.attrs[k][1], tag.attrs[k][2]>>], <<>>)

\* the chain of copied parents, the innermost holding body
RECURSIVE nest(_, _)
nest(parent_tags, body) ==
    IF parent_tags = <<>> THEN body
    ELSE <<[_copy_tag_with_attrs(Head(parent_tags)) EXCEPT
               !.children = nest(Tail(parent_tags), body)]>>

\* the nodes of the fragment built from elements under copies of parent_tags
_create_fragment(elements, parent_tags) ==
    nest(parent_tags,
         [k \in 1..Len(elements) |->
             IF isTag(elements[k]) THEN copy(elements[k])
             ELSE NavigableString(str(elements[k]))])

\* first_part as a change of the code would have it: the children are put
\* into a copy of the element's own tag
first_part_wrapped(element, split_point) ==
    <<[_copy_tag_with_attrs(element) EXCEPT
          !.children = [k \in 1..(split_point - 1) |-> copy(element.children[k])]]>>

\* the children of element before the split point, copied
first_part(element, split_point) ==
    [k \in 1..(split_point - 1) |-> copy(element.children[k])]

\* remaining as a bug would have it: the oversized element itself
remaining_whole_element(element, split_point) == <<copy(element)>>

\* remaining as a bug would have it: all the children, not only those after
\* the split point
remaining_all_children(element, split_point) ==
    [k \in 1..Len(element.children) |-> copy(element.children[k])]

\* split_point.next_siblings, copied
remaining(element, split_point) ==
    [k \in 1..(Len(element.children) - split_point) |->
        copy(element.children[split_point + k])]

(***************************************************************************)
(* The generator as a state machine.  stack holds one frame per active     *)
(* call of split_message (the last is the innermost recursive call);       *)
(* yielded is the sequence of fragments handed to the consumer so far.     *)
(***************************************************************************)
Frame(src) ==
    [source |-> src, pc |-> "enter", children |-> <<>>, idx |-> 1,
     current_elements |-> <<>>, current_length |-> 0]

top == stack[Len(stack)]

element == top.children[top.idx]

element_length == Len(str(element))

InLoop ==
    /\ status = "running"
    /\ top.pc = "loop"
    /\ top.idx <= Len(top.children)

\* the test of line 163 as a bug would have it: no text counts as blank
IsBlankString_never(n) == FALSE

IsBlankString(n) == isNavigableString(n) /\ strip(n.data) = <<>>

\* the test of line 200 as a bug would have it: >= in place of >
exceeds_or_reaches(current_length, length) == current_length + length >= max_len

\* line 200: adding an element of this length would exceed the maximum
exceeds(current_length, length) == current_length + length > max_len

\* the innermost call returns; the call of the consumer ends with the last one
Popped == SubSeq(stack, 1, Len(stack) - 1)

ReturnFrom == IF Len(stack) = 1 THEN "done" ELSE "running"

\* a fragment is yielded; main (src/src/main.py) echoes it with its 1-based
\* index and its length before the generator is resumed
Yield(fragment) ==
    /\ yielded' = Append(yielded, fragment)
    /\ echoed' = Append(echoed, [i |-> Len(yielded) + 1, chars |-> Len(fragment),
                                 fragment |-> fragment])

NoYield == UNCHANGED <<yielded, echoed>>

Init ==
    /\ source \in Sources
    /\ max_len \in 1..MaxMaxLen
    /\ stack = <<Frame(source)>>
    /\ yielded = <<>>
    /\ echoed = <<>>
    /\ status = "running"
    /\ error = "none"

\* lines 155-160: a blank source ends the call, any other source is parsed
Enter ==
    /\ status = "running"
    /\ top.pc = "enter"
    /\ IF strip(top.source) = <<>>
       THEN /\ stack' = Popped
            /\ status' = ReturnFrom
       ELSE /\ stack' = [stack EXCEPT ![Len(stack)] =
                            [@ EXCEPT !.pc = "loop", !.children = BeautifulSoup(top.source)]]
            /\ status' = status
    /\ NoYield
    /\ UNCHANGED <<source, max_len, error>>

\* lines 163-164
SkipBlank ==
    /\ InLoop
    /\ IsBlankString(element)
    /\ stack' = [stack EXCEPT ![Len(stack)].idx = @ + 1]
    /\ NoYield
    /\ UNCHANGED <<source, max_len, status, error>>

Raise(kind) ==
    /\ status' = "error"
    /\ error' = kind
    /\ stack' = <<>>
    /\ NoYield
    /\ UNCHANGED <<source, max_len>>

\* lines 169-172
RaiseCannotSplit ==
    /\ InLoop
    /\ ~IsBlankString(element)
    /\ element_length > max_len
    /\ ~_can_be_split(element)
    /\ Raise("cannot be split")

\* lines 175-177
RaiseNoSplitPoint ==
    /\ InLoop
    /\ ~IsBlankString(element)
    /\ element_length > max_len
    /\ _can_be_split(element)
    /\ _find_split_point(element, 0) = 0
    /\ Raise("no split point")

\* YieldFirstPart as a bug would have it: the children are appended to the
\* first part without copy(), which moves them out of the element
YieldFirstPart_moving ==
    /\ InLoop
    /\ ~IsBlankString(element)
    /\ element_length > max_len
    /\ _can_be_split(element)
    /\ LET sp == _find_split_point(element, 0)
       IN  /\ sp # 0
           /\ _estimate_length(first_part(element, sp)) <= max_len
           /\ Yield(decodeAll(first_part(element, sp)))
           /\ stack' = Append([stack EXCEPT
                                  ![Len(stack)].children[top.idx].children =
                                      SubSeq(@, sp, Len(@)),
                                  ![Len(stack)].idx = @ + 1],
                              Frame(decodeAll(remaining(element, sp))))
    /\ UNCHANGED <<source, max_len, status, error>>

\* lines 179-188 and 192-197: the first part is yielded and the call on the
\* serialised remainder starts
YieldFirstPart ==
    /\ InLoop
    /\ ~IsBlankString(element)
    /\ element_length > max_len
    /\ _can_be_split(element)
    /\ LET sp == _find_split_point(element, 0)
       IN  /\ sp # 0
           /\ _estimate_length(first_part(element, sp)) <= max_len
           /\ Yield(decodeAll(first_part(element, sp)))
           /\ stack' = Append([stack EXCEPT ![Len(stack)].idx = @ + 1],
                              Frame(decodeAll(remaining(element, sp))))
    /\ UNCHANGED <<source, max_len, status, error>>

\* lines 187-190
RaiseFirstPartTooLong ==
    /\ InLoop
    /\ ~IsBlankString(element)
    /\ element_length > max_len
    /\ _can_be_split(element)
    /\ LET sp == _find_split_point(element, 0)
       IN  /\ sp # 0
           /\ _estimate_length(first_part(element, sp)) > max_len
    /\ Raise("first part too long")

\* lines 200-208
FlushAndRestart ==
    /\ InLoop
    /\ ~IsBlankString(element)
    /\ element_length <= max_len
    /\ exceeds(top.current_length, element_length)
    /\ IF top.current_elements # <<>>
       THEN Yield(decodeAll(_create_fragment(top.current_elements, <<>>)))
       ELSE NoYield
    /\ stack' = [stack EXCEPT ![Len(stack)] =
                    [@ EXCEPT !.current_elements = <<element>>,
                              !.current_length = element_length,
                              !.idx = @ + 1]]
    /\ UNCHANGED <<source, max_len, status, error>>

\* lines 210-213
Accumulate ==
    /\ InLoop
    /\ ~IsBlankString(element)
    /\ element_length <= max_len
    /\ ~exceeds(top.current_length, element_length)
    /\ stack' = [stack EXCEPT ![Len(stack)] =
                    [@ EXCEPT !.current_elements = Append(@, element),
                              !.current_length = @ + element_length,
                              !.idx = @ + 1]]
    /\ NoYield
    /\ UNCHANGED <<source, max_len, status, error>>

\* lines 215-219: the last fragment is yielded and the call returns
FinalFlush ==
    /\ status = "running"
    /\ top.pc = "loop"
    /\ top.idx > Len(top.children)
    /\ LET fragment == decodeAll(_create_fragment(top.current_elements, <<>>))
       IN  IF top.current_elements # <<>> /\ strip(fragment) # <<>>
           THEN Yield(fragment)
           ELSE NoYield
    /\ stack' = Popped
    /\ status' = ReturnFrom
    /\ UNCHANGED <<source, max_len, error>>

Next ==
    \/ Enter
    \/ SkipBlank
    \/ RaiseCannotSplit
    \/ RaiseNoSplitPoint
    \/ YieldFirstPart
    \/ RaiseFirstPartTooLong
    \/ FlushAndRestart
    \/ Accumulate
    \/ FinalFlush

Spec == Init /\ [][Next]_vars

\* a fully consumed call: the consumer keeps asking for the next fragment, so
\* the generator always takes its next step. Every action is guarded by
\* status = "running" and some action is enabled in every running state, so
\* this is weak fairness of Next with its enabling condition written out.
FairSpec == Spec /\ ([]<><<Next>>_vars \/ []<>(status # "running"))

(***************************************************************************)
(* The input seen as a tree, and where its nodes appear in the output.     *)
(***************************************************************************)
InputTree == BeautifulSoup(source)

\* the nodes of a forest in document order
RECURSIVE Preorder(_)
Preorder(ns) ==
    IF ns = <<>> THEN <<>>
    ELSE <<Head(ns)>> \o Preorder(Head(ns).children) \o Preorder(Tail(ns))

NotBlank(n) == ~IsBlankString(n)

\* the content nodes of the input (all but whitespace-only text), in document order
ContentNodes == SelectSeq(Preorder(InputTree), NotBlank)

\* the positions at which the string sub starts in the string s
Occurrences(sub, s) ==
    {i \in 1..(Len(s) - Len(sub) + 1) : SubSeq(s, i, i + Len(sub) - 1) = sub}

\* the fragments (by index) that hold a complete serialisation of node n
FragmentsOf(n) == {k \in 1..Len(yielded) : Occurrences(decode(n), yielded[k]) # {}}

Count(c, s) == Cardinality({i \in 1..Len(s) : s[i] = c})

\* C1: every fragment yielded so far (sibling flush, first part, fragments of
\* the recursive call, final flush) has at most max_len characters.
C1_SizeBound == \A k \in 1..Len(yielded) : Len(yielded[k]) <= max_len

\* C2: once the call has completed without raising, every content node of the
\* input (every node but whitespace-only text) appears in some yielded fragment.
C2_Coverage ==
    status = "done" =>
        LET cn == ContentNodes
        IN  \A a \in 1..Len(cn) : FragmentsOf(cn[a]) # {}

\* C3: if content node a precedes content node b in document order, no fragment
\* holding b is yielded before a fragment holding a.
C3_DocumentOrder ==
    LET cn == ContentNodes
    IN  \A a, b \in 1..Len(cn) :
            a < b => \A ka \in FragmentsOf(cn[a]), kb \in FragmentsOf(cn[b]) : ka <= kb

\* C4: over all fragments yielded so far (those of recursive calls included),
\* every content node of the input occurs at most once.
C4_NoDuplication ==
    LET cn == ContentNodes
    IN  \A a \in 1..Len(cn) :
            LET hits == FragmentsOf(cn[a])
            IN  /\ Cardinality(hits) <= 1
                /\ \A k \in hits : Cardinality(Occurrences(decode(cn[a]), yielded[k])) = 1

\* a completed call that went through a recursive call and yielded three
\* fragments, each holding content of the input
C4_Witness ==
    /\ status = "done"
    /\ Len(yielded) >= 3
    /\ LET cn == ContentNodes
       IN  \A k \in 1..Len(yielded) : \E a \in 1..Len(cn) : k \in FragmentsOf(cn[a])

\* the elements (Tag nodes) of a forest
Elements(ns) ==
    LET po == Preorder(ns)
    IN  {po[k] : k \in {j \in 1..Len(po) : isTag(po[j])}}

\* C5: every yielded fragment is a sequence of complete subtrees: it has as
\* many '<' as '>', it is the serialisation of what it parses to (no tag is left
\* open, no end tag is stray), and every element in it is an element of the
\* input with all of its children.
C5_WellFormed ==
    yielded # <<>> =>
        LET input == Elements(InputTree)
        IN  \A k \in 1..Len(yielded) :
                LET roots == BeautifulSoup(yielded[k])
                IN  /\ Count("<", yielded[k]) = Count(">", yielded[k])
                    /\ decodeAll(roots) = yielded[k]
                    /\ Elements(roots) \subseteq input

\* the top-level nodes of fragment k
Roots(k) == BeautifulSoup(yielded[k])

\* a fragment that holds an element together with its element children, and a
\* fragment cut out of an oversized element (its root is an inner element)
C5_Witness ==
    /\ \E k \in 1..Len(yielded) :
           \E n \in Elements(Roots(k)) :
               \E c \in 1..Len(n.children) : isTag(n.children[c])
    /\ \E k \in 1..Len(yielded) :
           \E t \in 1..Len(Roots(k)) :
               /\ isTag(Roots(k)[t])
               /\ \A u \in 1..Len(InputTree) : InputTree[u] # Roots(k)[t]

\* C6: a step taken at a top-level node that is not whitespace-only, whose
\* serialisation is longer than max_len and that is a Text node, an Element
\* without children or an Element with only Text children, raises the
\* non-splittable error and yields nothing.
C6_UnsplittableFails ==
    [][(/\ InLoop
        /\ NotBlank(element)
        /\ Len(decode(element)) > max_len
        /\ ~_can_be_split(element))
          => (status' = "error" /\ error' = "cannot be split" /\ yielded' = yielded)]_vars

\* C7: when the call has ended in an error, no fragment has been handed to the
\* consumer.
C7_AllOrNothing == status = "error" => (yielded = <<>> /\ echoed = <<>>)

\* the top-level nodes of the input are all whitespace-only text (none for the
\* empty source)
BlankInput ==
    \A k \in 1..Len(InputTree) :
        isNavigableString(InputTree[k]) /\ isspace(InputTree[k].data)

\* C8: for an empty source and for a source of whitespace-only text, nothing
\* is ever yielded and no error is raised, whatever max_len is.
C8_BlankYieldsNothing == BlankInput => (yielded = <<>> /\ status # "error")

\* the call on a source of whitespace (not the empty one) has returned
C8_Witness == BlankInput /\ source # <<>> /\ status = "done"

\* C9: no yielded fragment begins or ends with whitespace.
C9_Trimmed ==
    \A k \in 1..Len(yielded) :
        yielded[k] # <<>> =>
            /\ yielded[k][1] \notin Whitespace
            /\ yielded[k][Len(yielded[k])] \notin Whitespace

\* C10: every element of every yielded fragment has the attributes of the
\* element of the input with its name: the same names and values in the same
\* order (the elements of an input document have different names).
C10_AttributesKept ==
    yielded # <<>> =>
        LET input == Elements(InputTree)
        IN  \A k \in 1..Len(yielded) :
                \A n \in Elements(BeautifulSoup(yielded[k])) :
                    \E m \in input : m.name = n.name /\ m.attrs = n.attrs

\* a fragment cut out of an oversized element holds an element with two attributes
C10_Witness ==
    \E k \in 1..Len(yielded) :
        \E n \in Elements(Roots(k)) :
            /\ Len(n.attrs) = 2
            /\ \A u \in 1..Len(InputTree) : InputTree[u] # n

\* the first child whose inclusion takes the running total past max_len when
\* the length of every child, Text or Element, is added; 0 when all fit
RECURSIVE FirstOverflow(_, _, _)
FirstOverflow(cs, k, total) ==
    IF k > Len(cs) THEN 0
    ELSE IF total + Len(str(cs[k])) > max_len THEN k
         ELSE FirstOverflow(cs, k + 1, total + Len(str(cs[k])))

\* the sum of the estimated lengths of the nodes ns
RECURSIVE SumLengths(_)
SumLengths(ns) == IF ns = <<>> THEN 0 ELSE Len(str(Head(ns))) + SumLengths(Tail(ns))

\* C12: for every top-level Element the driver scans, the locator started at 0
\* returns the first child whose inclusion makes the total of the lengths of
\* all children so far (Text and Element) exceed max_len, so the children
\* before the returned child have a total length of at most max_len.
C12_LocatorCountsAllChildren ==
    (status = "running" /\ top.pc = "loop") =>
        \A k \in 1..Len(top.children) :
            isTag(top.children[k]) =>
                LET cs == top.children[k].children
                    sp == _find_split_point(top.children[k], 0)
                IN  /\ sp = FirstOverflow(cs, 1, 0)
                    /\ sp # 0 => SumLengths(SubSeq(cs, 1, sp - 1)) <= max_len

\* C13: the call never fails with the no-split-point error.
C13_NoSplitPointErrorUnreachable == error # "no split point"

\* the Element children among the first n children of element e
TagChildren(e, n) == SelectSeq(SubSeq(e.children, 1, n), isTag)

\* the locator's test is strict: the Element children up to the returned child
\* exceed max_len together, those before it do not; without a returned child
\* the Element children fit, also when they reach max_len exactly
LocatorStrict ==
    (status = "running" /\ top.pc = "loop") =>
        \A k \in 1..Len(top.children) :
            isTag(top.children[k]) =>
                LET e  == top.children[k]
                    sp == _find_split_point(e, 0)
                IN  IF sp = 0 THEN SumLengths(TagChildren(e, Len(e.children))) <= max_len
                    ELSE /\ SumLengths(TagChildren(e, sp)) > max_len
                         /\ SumLengths(TagChildren(e, sp - 1)) <= max_len

\* C14: in the sibling scan a node that is not oversized is appended to the
\* accumulator if and only if acc_len + estimate(n) <= max_len (a node that
\* makes the total exactly max_len is included); otherwise the non-empty
\* accumulator is flushed as one fragment and restarted as [n] with
\* acc_len = estimate(n).  The locator uses the same strict test.
C14_ExactFitIncluded ==
    /\ []LocatorStrict
    /\ [][(InLoop /\ NotBlank(element) /\ element_length <= max_len) =>
            LET before == top
                after  == stack'[Len(stack)]
            IN  IF before.current_length + element_length <= max_len
                THEN /\ after.current_elements = Append(before.current_elements, element)
                     /\ after.current_length = before.current_length + element_length
                     /\ yielded' = yielded
                ELSE /\ after.current_elements = <<element>>
                     /\ after.current_length = element_length
                     /\ before.current_elements # <<>>
                     /\ yielded' = Append(yielded, decodeAll(before.current_elements))]_vars

\* a second node was appended to the accumulator and made it exactly max_len long
C14_Witness ==
    /\ status = "running"
    /\ Len(top.current_elements) >= 2
    /\ top.current_length = max_len

\* no fragment holds a tag of an element that was too long to be kept whole
NoTagOfSplitElement ==
    yielded # <<>> =>
        LET input == Elements(InputTree)
        IN  \A k \in 1..Len(yielded) :
                \A n \in Elements(BeautifulSoup(yielded[k])) :
                    \A m \in input : m.name = n.name => Len(decode(m)) <= max_len

\* C15: when an oversized splittable top-level Element is split, the fragment
\* yielded for its first part is exactly the serialisation of the children
\* before the split point, in order, with no tag of the element around them,
\* and the recursive call runs on the children after the split point, again
\* without that tag; so no fragment holds a tag of an element that was split.
C15_SplitUnwraps ==
    /\ []NoTagOfSplitElement
    /\ [][(/\ InLoop
           /\ NotBlank(element)
           /\ element_length > max_len
           /\ status' = "running") =>
            LET cs == element.children
                sp == _find_split_point(element, 0)
            IN  /\ yielded' = Append(yielded, decodeAll(SubSeq(cs, 1, sp - 1)))
                /\ Len(stack') = Len(stack) + 1
                /\ stack'[Len(stack')].source = decodeAll(SubSeq(cs, sp + 1, Len(cs)))]_vars

\* the call has completed and a fragment has at its root a child of an
\* oversized top-level element of the input
C15_Witness ==
    /\ status = "done"
    /\ \E k \in 1..Len(yielded), u \in 1..Len(InputTree) :
           /\ Len(decode(InputTree[u])) > max_len
           /\ Roots(k) # <<>>
           /\ \E c \in 1..Len(InputTree[u].children) : InputTree[u].children[c] = Roots(k)[1]

\* the tree the outermost call iterates over is the parsed input
TreeUnchanged == (stack # <<>> /\ stack[1].pc = "loop") => stack[1].children = InputTree

\* C16: building fragments leaves the parsed trees as they are: in every step
\* each call that stays active keeps its nodes, links and child order, the
\* calls below the innermost one do not move, the innermost one advances by
\* exactly one top-level node, and a call returns only after its last
\* top-level node; the outermost call's tree stays the parsed input.
C16_SourceTreeUnchanged ==
    /\ []TreeUnchanged
    /\ [][/\ \A i \in 1..Len(stack) :
                (i <= Len(stack') /\ stack[i].pc = "loop") =>
                    /\ stack'[i].children = stack[i].children
                    /\ IF i = Len(stack) THEN stack'[i].idx = stack[i].idx + 1
                       ELSE stack'[i] = stack[i]
          /\ (status' # "error" /\ Len(stack') < Len(stack) /\ top.pc = "loop") =>
                top.idx = Len(top.children) + 1]_vars

\* after a first part was yielded and the recursive call returned, the
\* outermost call goes on with the next top-level node of the input
C16_Witness ==
    /\ status = "running"
    /\ Len(stack) = 1
    /\ yielded # <<>>
    /\ top.pc = "loop"
    /\ top.idx = 2
    /\ top.idx <= Len(top.children)
    /\ top.current_elements = <<>>

\* C17: in every call, at every point of the scan, acc_len is the sum of the
\* estimated lengths of the accumulated nodes and is at most max_len, and the
\* accumulator holds no whitespace-only text and no node whose estimated
\* length exceeds max_len.
C17_AccumulatorInvariant ==
    \A i \in 1..Len(stack) :
        LET acc == stack[i].current_elements
        IN  /\ stack[i].current_length = SumLengths(acc)
            /\ stack[i].current_length <= max_len
            /\ \A k \in 1..Len(acc) :
                   /\ ~(isNavigableString(acc[k]) /\ isspace(acc[k].data))
                   /\ Len(str(acc[k])) <= max_len

\* an accumulator that holds a text and an element and is shorter than max_len
C17_Witness ==
    /\ status = "running"
    /\ Len(top.current_elements) = 2
    /\ top.current_length < max_len
    /\ \E j, k \in 1..2 :
           isNavigableString(top.current_elements[j]) /\ isTag(top.current_elements[k])

\* C18: a fully consumed call eventually ends, done or in an error; every
\* recursive call starts on a source shorter than the oversized element it
\* was cut from.
C18_Terminates ==
    /\ <>(status \in {"done", "error"})
    /\ [][Len(stack') = Len(stack) + 1 =>
            Len(stack'[Len(stack')].source) < Len(decode(element))]_vars

\* a recursive call made from within a recursive call
C18_Witness == Len(stack) = 3 /\ status = "running"

\* C19: no yielded fragment is empty or blank; in particular no empty first
\* part is yielded when the split point is the first child.
C19_NoEmptyFragment == \A k \in 1..Len(yielded) : strip(yielded[k]) # <<>>

====
